---- MODULE Spec2Model ----
(***************************************************************************)
(* Model of the avatar-chat backend: the POST /api/chat handler, the       *)
(* background video poller (processVideoInBackground), the HeyGen service  *)
(* (real and mock) and RAGService.chatWithRAG.                             *)
(*                                                                         *)
(* Every `await` of the JavaScript source is a suspension point, so each   *)
(* action below is the run of a handler from one await to the next.  The   *)
(* answers of the collaborators (store, renderer, OpenAI) are inputs drawn *)
(* with \E.                                                                *)
(***************************************************************************)
EXTENDS Integers, Sequences, FiniteSets, TLC

(***************************************************************************)
(* Bounds of the model and constants of the program.                       *)
(***************************************************************************)
MaxChats == 2              \* number of submit-chat requests in a run

MaxWaitTime == 60000       \* waitForVideoCompletion(videoId, 60000)
PollInterval == 5000       \* const pollInterval = 5000
NumEndpoints == 5          \* possibleEndpoints.length

Chats == 1..MaxChats

NULL == "null"

\* a chat id under which the chats table holds no row
NoRow == [status |-> "no_row", videoId |-> NULL, videoUrl |-> NULL]

\* playable URLs the renderer may report, and the mock service's sample URL
Urls == {"u1", "u2"}
MockUrl == "sample_url"

\* the time one status query may take, in ms
Latencies == {0, PollInterval}

Terminal == {"text_only", "completed", "completed_no_url", "failed", "timeout"}

VARIABLES
  apiKey,        \* process.env.HEYGEN_API_KEY is set
  avatarCfg,     \* process.env.HEYGEN_AVATAR_ID is set
  storeFaulty,   \* environment: pool.query may reject in this run
  hpc,           \* per request: position of the /api/chat handler
  message,       \* per request: req.body.message
  useVideo,      \* per request: req.body.use_video
  row,           \* the chats table: chat id -> row, or NoRow
  job,           \* per request: videoResult.video_id held by the handler
  response,      \* per request: the HTTP response sent
  ppc,           \* per chat: position of processVideoInBackground
  elapsed,       \* per chat: Date.now() - startTime while waitForVideoCompletion runs
  videoResult,   \* per chat: what waitForVideoCompletion returned or threw
  pollerWrites,  \* per chat: UPDATEs of the poller that the store applied
  ragPc,         \* position of one chatWithRAG call
  ragDocs,       \* rows of uploaded_files with upload_status 'completed' for the avatar
  ragAttempts,   \* let attempts
  ragRunStatus,  \* runStatus.status
  ragRemote,     \* the transient assistant and thread: none, live or deleted
  ragCalls,      \* calls issued to the assistant API, the run-status query and the completion API
  ragFailed,     \* a step of the call has thrown
  ragPending,    \* the answer built from the completed run, before clean-up
  ragAnnotations, \* lastMessage.content[0].text.annotations of the completed run
  ragPlain,      \* what the last regularChat call returned, or that it threw
  ragResult,     \* what the call returned, or that it rejected
  reader,        \* one client of GET /api/video-status/:chat_id: its request and the answer
  svcPc,         \* position of one call of a HeyGenService method
  svcAnswer,     \* generateAvatarVideo: the renderer's answer to POST /video/generate
  svcJob,        \* generateAvatarVideo: the video_id returned, or "throw"
  svcWorld,      \* checkVideoStatus: what each candidate endpoint answers
  svcQueried,    \* checkVideoStatus: the endpoints queried so far, in order
  svcStatus,     \* checkVideoStatus: the record returned, or EndpointFail when it threw
  waitPc,        \* position of one call of waitForVideoCompletion
  waitMax,       \* its parameter maxWaitTime
  waitElapsed,   \* Date.now() - startTime
  waitQueries,   \* checkVideoStatus calls issued so far
  waitLastQueryAt, \* Date.now() - startTime when the last of them was issued
  waitLastStatus,  \* what the last of them answered
  waitOutcome,   \* how the call ended
  filesFaulty,   \* environment: openai.files.create may throw in this run
  upPc,          \* per upload: position of uploadFileToVectorStore
  upStore,       \* per upload: the storeId getOrCreateVectorStore returned
  upStatus,      \* per upload: upload_status of its uploaded_files row
  upFileId,      \* per upload: openai_file_id of its uploaded_files row
  vsRows,        \* openai_store_id of the vector_stores rows of the avatar
  vsFileCount,   \* file_count of the avatar's vector_stores row
  cliPc,         \* position of the client's sendMessage / pollVideoStatus for one message
  pollCount,     \* let pollCount
  cliRequests,   \* GET /api/video-status requests the client has issued for the chat
  cliShown,      \* the video field of the assistant message in the messages state
  cliSawTerminal, \* a poll has been answered with a terminal server status
  currentScreen, \* App: the currentScreen state
  sessionId,     \* App: the sessionId state
  appNow         \* Date.now() as the App's handlers read it

chatVars == <<apiKey, avatarCfg, storeFaulty, hpc, message, useVideo, row, job, response,
              ppc, elapsed, videoResult, pollerWrites>>
ragVars == <<ragPc, ragDocs, ragAttempts, ragRunStatus, ragRemote, ragCalls,
             ragFailed, ragPending, ragAnnotations, ragPlain, ragResult>>
readVars == <<reader>>
svcVars == <<svcPc, svcAnswer, svcJob, svcWorld, svcQueried, svcStatus>>
waitVars == <<waitPc, waitMax, waitElapsed, waitQueries, waitLastQueryAt,
              waitLastStatus, waitOutcome>>
coreVars == <<chatVars, ragVars, readVars, svcVars>>
upVars == <<filesFaulty, upPc, upStore, upStatus, upFileId, vsRows, vsFileCount>>
cliVars == <<cliPc, pollCount, cliRequests, cliShown, cliSawTerminal>>
appVars == <<currentScreen, sessionId, appNow>>
lateVars == <<waitVars, upVars, cliVars, appVars>>
notWait == <<coreVars, upVars, cliVars, appVars>>
notUp == <<coreVars, waitVars, cliVars, appVars>>
notCli == <<coreVars, waitVars, upVars, appVars>>
notApp == <<coreVars, waitVars, upVars, cliVars>>
vars == <<coreVars, lateVars>>

(***************************************************************************)
(* The store: one pool.query either is applied and resolves, or rejects    *)
(* and changes nothing.                                                    *)
(***************************************************************************)
StoreOutcomes == IF storeFaulty THEN {TRUE, FALSE} ELSE {TRUE}

\* heygenService is the real HeyGenService only with both variables set
RealService == apiKey /\ avatarCfg

\* outcome: what waitForVideoCompletion returned or threw; url: the video_url of
\* the answer; answered: a status query had been answered before the last one
NoResult == [outcome |-> "none", url |-> NULL, answered |-> FALSE]

\* video_status of the INSERT: use_video ? 'generating' : 'text_only'
InsertStatusKeyed(use_video) ==
  IF use_video /\ apiKey THEN "generating" ELSE "text_only"
InsertStatus(use_video) == IF use_video THEN "generating" ELSE "text_only"

\* the branch taken after the INSERT: if (use_video && process.env.HEYGEN_API_KEY)
VideoBranch(r) == useVideo[r] /\ apiKey

(***************************************************************************)
(* HeyGenService.generateAvatarVideo / generateAvatarResponse.             *)
(* A renderer answer to POST /video/generate: the request is rejected      *)
(* (axios throws), or the body carries `error` and possibly data.video_id. *)
(***************************************************************************)
RenderAnswers ==
  [http : {"ok", "rejected"}, error : {"null", "undefined", "some_error"},
   hasVideoId : BOOLEAN]

\* the id the renderer gives the job of request r; the mock's own id
VideoIdOf(r) == "v" \o ToString(r)
MockVideoIdOf(r) == "mock_video_" \o ToString(r)

\* the video_id generateAvatarVideo returns, or "throw"
GenerateAvatarVideo(r, ans) ==
  IF ans.http = "rejected" THEN "throw"
  ELSE IF ans.error = "null" /\ ans.hasVideoId THEN VideoIdOf(r)
  ELSE "throw"

\* generateAvatarResponse of the service selected at start-up
GenerateAvatarResponse(r, ans) ==
  IF RealService THEN GenerateAvatarVideo(r, ans) ELSE MockVideoIdOf(r)

\* req.body.message: the field is absent, the empty string, or a text
Absent == "absent_field"
MessageInputs == {Absent, "", "hello"}

HasMessageUnlessAbsent(m) == m # Absent

\* if (!message): undefined and the empty string are falsy
HasMessage(m) == m \notin {Absent, ""}

(***************************************************************************)
(* app.post('/api/chat')                                                   *)
(***************************************************************************)
\* the request arrives; a missing message is answered 400 at once
ReceiveChat(r) ==
  /\ hpc[r] = "idle"
  /\ \E m \in MessageInputs, use_video \in BOOLEAN :
       /\ message' = [message EXCEPT ![r] = m]
       /\ IF ~HasMessage(m)
          THEN /\ response' = [response EXCEPT ![r] = "400"]
               /\ hpc' = [hpc EXCEPT ![r] = "done"]
               /\ UNCHANGED useVideo
          ELSE /\ useVideo' = [useVideo EXCEPT ![r] = use_video]
               /\ hpc' = [hpc EXCEPT ![r] = "rag"]
               /\ UNCHANGED response
  /\ UNCHANGED <<apiKey, avatarCfg, storeFaulty, row, job, ppc, elapsed,
                 videoResult, pollerWrites, ragVars, readVars, svcVars, lateVars>>

\* await ragService.chatWithRAG(...): it returns a result or rejects
RagReturns(r) ==
  /\ hpc[r] = "rag"
  /\ \E returned \in BOOLEAN :
       IF returned
       THEN /\ hpc' = [hpc EXCEPT ![r] = "insert"]
            /\ UNCHANGED response
       ELSE /\ response' = [response EXCEPT ![r] = "500"]
            /\ hpc' = [hpc EXCEPT ![r] = "done"]
  /\ UNCHANGED <<apiKey, avatarCfg, storeFaulty, message, useVideo, row, job, ppc,
                 elapsed, videoResult, pollerWrites, ragVars, readVars, svcVars, lateVars>>

AfterInsertIgnoresFailure(ok, video) == IF video THEN "submit" ELSE "done"

\* where the handler goes once the INSERT settled: the outer catch (500) when
\* it rejected, else the video branch or the text-only answer
AfterInsert(ok, video) == IF ok /\ video THEN "submit" ELSE "done"

\* INSERT INTO chats ... RETURNING id, then the text-only answer or the
\* call of generateAvatarResponse
InsertChat(r) ==
  /\ hpc[r] = "insert"
  /\ \E ok \in StoreOutcomes :
       IF ok
       THEN /\ row' = [row EXCEPT ![r] = [status |-> InsertStatus(useVideo[r]),
                                          videoId |-> NULL, videoUrl |-> NULL]]
            /\ IF VideoBranch(r)
               THEN UNCHANGED response
               ELSE response' = [response EXCEPT ![r] = "text_only"]
            /\ hpc' = [hpc EXCEPT ![r] = AfterInsert(ok, VideoBranch(r))]
       ELSE /\ response' = [response EXCEPT ![r] = "500"]
            /\ hpc' = [hpc EXCEPT ![r] = AfterInsert(ok, VideoBranch(r))]
            /\ UNCHANGED row
  /\ UNCHANGED <<apiKey, avatarCfg, storeFaulty, message, useVideo, job, ppc, elapsed,
                 videoResult, pollerWrites, ragVars, readVars, svcVars, lateVars>>

\* where the handler goes when generateAvatarResponse settled: a rejection
\* enters catch (videoError), a result is followed by the UPDATE of video_id
AfterSubmitIgnoresThrow(id) == "update_id"
AfterSubmit(id) == IF id = "throw" THEN "catch_write" ELSE "update_id"

\* where the handler goes when the UPDATE of video_id settled: the try block
\* ends after processVideoInBackground, a rejection enters catch (videoError)
AfterUpdateIdFallsThrough(ok) == "catch_write"
AfterUpdateId(ok) == IF ok THEN "done" ELSE "catch_write"

\* video.status of the response sent before processVideoInBackground is called
GeneratingResponseDeferred == "none"
GeneratingResponse == "generating"

\* the response of the catch (videoError) block: the text answer with
\* video.status 'failed', or the outer catch's 500 when its UPDATE rejected
CatchResponseRethrows(ok) == "500"
CatchResponse(ok) == IF ok THEN "failed" ELSE "500"

\* await heygenService.generateAvatarResponse(...) settles
SubmitVideo(r) ==
  /\ hpc[r] = "submit"
  /\ \E ans \in RenderAnswers :
       LET id == GenerateAvatarResponse(r, ans) IN
       /\ job' = IF id = "throw" THEN job ELSE [job EXCEPT ![r] = id]
       /\ hpc' = [hpc EXCEPT ![r] = AfterSubmit(id)]
  /\ UNCHANGED <<apiKey, avatarCfg, storeFaulty, message, useVideo, row, response, ppc,
                 elapsed, videoResult, pollerWrites, ragVars, readVars, svcVars, lateVars>>

\* UPDATE chats SET video_id, video_status = 'generating'; then res.json and
\* processVideoInBackground, which arms the 30 s timer
StoredVideoIdDropped(id) == NULL

\* SET video_id = $1 with videoResult.video_id
StoredVideoId(id) == id

UpdateVideoId(r) ==
  /\ hpc[r] = "update_id"
  /\ \E ok \in StoreOutcomes :
       /\ IF ok
          THEN /\ row' = [row EXCEPT ![r].videoId = StoredVideoId(job[r]),
                                     ![r].status = "generating"]
               /\ response' = [response EXCEPT ![r] = GeneratingResponse]
               /\ ppc' = [ppc EXCEPT ![r] = "timer"]
          ELSE UNCHANGED <<row, response, ppc>>
       /\ hpc' = [hpc EXCEPT ![r] = AfterUpdateId(ok)]
  /\ UNCHANGED <<apiKey, avatarCfg, storeFaulty, message, useVideo, job, elapsed,
                 videoResult, pollerWrites, ragVars, readVars, svcVars, lateVars>>

\* catch (videoError): UPDATE chats SET video_status = 'failed', then the
\* text answer; a rejected UPDATE reaches the outer catch (500)
CatchWrite(r) ==
  /\ hpc[r] = "catch_write"
  /\ \E ok \in StoreOutcomes :
       /\ row' = IF ok THEN [row EXCEPT ![r].status = "failed"] ELSE row
       /\ response' = [response EXCEPT ![r] = CatchResponse(ok)]
  /\ hpc' = [hpc EXCEPT ![r] = "done"]
  /\ UNCHANGED <<apiKey, avatarCfg, storeFaulty, message, useVideo, job, ppc, elapsed,
                 videoResult, pollerWrites, ragVars, readVars, svcVars, lateVars>>

(***************************************************************************)
(* HeyGenService.checkVideoStatus: the candidate endpoints are queried in  *)
(* list order and the first that answers is returned; it throws when all   *)
(* of them fail.                                                           *)
(***************************************************************************)
EndpointFail == [ok |-> FALSE, status |-> NULL, video_url |-> NULL]

\* what a working endpoint may answer; "processing" stands for every status
\* that is neither 'completed' nor 'failed'; a completed answer may lack video_url
Answers ==
  {[ok |-> TRUE, status |-> "processing", video_url |-> NULL],
   [ok |-> TRUE, status |-> "failed", video_url |-> NULL]}
  \cup {[ok |-> TRUE, status |-> "completed", video_url |-> u] : u \in Urls \cup {NULL}}

\* what the endpoints after the first working one would answer if queried
Decoy == [ok |-> TRUE, status |-> "completed", video_url |-> "decoy_url"]

\* the positions of the first working endpoint that the model tries: the
\* first and the last of the list
FirstWorkingAt == {1, NumEndpoints}

\* the answers of the five endpoints to one checkVideoStatus call: the first
\* k-1 fail, the k-th answers a and the later ones would answer Decoy; or all fail
StatusWorlds ==
  {[i \in 1..NumEndpoints |-> IF i < k THEN EndpointFail ELSE IF i = k THEN a ELSE Decoy] :
     k \in FirstWorkingAt, a \in Answers}
  \cup {[i \in 1..NumEndpoints |-> EndpointFail]}

RECURSIVE FirstWorking(_, _)
FirstWorking(resps, i) ==
  IF i > NumEndpoints THEN EndpointFail
  ELSE IF resps[i].ok THEN resps[i]
  ELSE FirstWorking(resps, i + 1)

\* the status record returned, or EndpointFail for 'All video status endpoints failed'
CheckVideoStatus(resps) == FirstWorking(resps, 1)

(***************************************************************************)
(* One call of HeyGenService.generateAvatarVideo or checkVideoStatus,      *)
(* a step per request to the renderer                                      *)
(***************************************************************************)
NoAnswer == [http |-> "none", error |-> "none", hasVideoId |-> FALSE]

\* what endpoint i answers when it works: a status, with a URL of its own
EndpointAnswers(i) ==
  {[ok |-> TRUE, status |-> "processing", video_url |-> NULL],
   [ok |-> TRUE, status |-> "completed", video_url |-> "u_" \o ToString(i)]}

\* every endpoint fails or answers, independently of the others
EndpointWorlds ==
  {w \in [1..NumEndpoints ->
            {EndpointFail} \cup UNION {EndpointAnswers(i) : i \in 1..NumEndpoints}] :
     \A i \in 1..NumEndpoints : w[i].ok => w[i] \in EndpointAnswers(i)}

AllFail == [i \in 1..NumEndpoints |-> EndpointFail]

SvcIdle ==
  /\ svcPc = "idle"
  /\ svcAnswer = NoAnswer
  /\ svcJob = NULL
  /\ svcWorld = AllFail
  /\ svcQueried = <<>>
  /\ svcStatus = EndpointFail

\* generateAvatarVideo: POST /video/generate settles and the body is examined
SvcGenerate ==
  /\ svcPc = "start"
  /\ \E r \in Chats, ans \in RenderAnswers :
       /\ svcAnswer' = ans
       /\ svcJob' = GenerateAvatarVideo(r, ans)
  /\ svcPc' = "generated"
  /\ UNCHANGED <<svcWorld, svcQueried, svcStatus, chatVars, ragVars, readVars, lateVars>>

\* checkVideoStatus is called; the renderer is in one of the worlds
SvcCheckStart ==
  /\ svcPc = "start"
  /\ \E w \in EndpointWorlds : svcWorld' = w
  /\ svcPc' = "query"
  /\ UNCHANGED <<svcAnswer, svcJob, svcQueried, svcStatus, chatVars, ragVars, readVars, lateVars>>

AfterEndpointKeepsTrying(resp, i) ==
  IF i = NumEndpoints THEN "checked" ELSE "query"

\* after the GET of endpoint i: return on success, continue on failure,
\* throw 'All video status endpoints failed' after the last one
AfterEndpoint(resp, i) ==
  IF resp.ok \/ i = NumEndpoints THEN "checked" ELSE "query"

\* for (const endpoint of possibleEndpoints): await this.client.get(endpoint)
SvcQuery ==
  /\ svcPc = "query"
  /\ LET i == Len(svcQueried) + 1 IN
     /\ svcQueried' = Append(svcQueried, i)
     /\ svcStatus' = IF svcWorld[i].ok THEN svcWorld[i] ELSE svcStatus
     /\ svcPc' = AfterEndpoint(svcWorld[i], i)
  /\ UNCHANGED <<svcAnswer, svcJob, svcWorld, chatVars, ragVars, readVars, lateVars>>

(***************************************************************************)
(* One call of HeyGenService.waitForVideoCompletion(videoId, maxWaitTime), *)
(* with the time each status query and each timer takes                    *)
(***************************************************************************)
HalfInterval == PollInterval \div 2

\* values of maxWaitTime: negative, zero, below, at and between multiples of
\* pollInterval, and the value processVideoInBackground passes
MaxWaits ==
  {0 - PollInterval, 0, HalfInterval, PollInterval, PollInterval + HalfInterval,
   PollInterval + PollInterval, MaxWaitTime}

\* the time one checkVideoStatus call takes, and how late a timer may fire
QueryLatencies == {0, HalfInterval, PollInterval}
TimerLateness == {0, HalfInterval}

\* what one checkVideoStatus call gives: a status, or "error" when it throws
QueryResults == {"processing", "completed", "failed", "error"}

WaitIdle ==
  /\ waitPc = "idle"
  /\ waitMax = 0
  /\ waitElapsed = 0
  /\ waitQueries = 0
  /\ waitLastQueryAt = 0
  /\ waitLastStatus = NULL
  /\ waitOutcome = "none"

LoopContinuesInclusive(elapsedMs, maxWaitTime) == elapsedMs <= maxWaitTime

\* while (Date.now() - startTime < maxWaitTime)
LoopContinues(elapsedMs, maxWaitTime) == elapsedMs < maxWaitTime

\* the loop condition: the next checkVideoStatus call is issued, or
\* throw 'Video generation timeout ...'
WaitCheck ==
  /\ waitPc = "loop"
  /\ IF LoopContinues(waitElapsed, waitMax)
     THEN /\ waitPc' = "query"
          /\ waitQueries' = waitQueries + 1
          /\ waitLastQueryAt' = waitElapsed
          /\ UNCHANGED waitOutcome
     ELSE /\ waitPc' = "ended"
          /\ waitOutcome' = "timeout"
          /\ UNCHANGED <<waitQueries, waitLastQueryAt>>
  /\ UNCHANGED <<waitMax, waitElapsed, waitLastStatus, notWait>>

\* checkVideoStatus settles: return on completed, throw on failed, rethrow
\* its error, else start the pollInterval timer
WaitAnswer ==
  /\ waitPc = "query"
  /\ \E lat \in QueryLatencies, st \in QueryResults :
       /\ waitElapsed' = waitElapsed + lat
       /\ waitLastStatus' = st
       /\ waitPc' = IF st = "processing" THEN "sleep" ELSE "ended"
       /\ waitOutcome' = CASE st = "completed" -> "success"
                           [] st = "failed" -> "render_failed"
                           [] st = "error" -> "status_error"
                           [] OTHER -> waitOutcome
  /\ UNCHANGED <<waitMax, waitQueries, waitLastQueryAt, notWait>>

\* await new Promise(resolve => setTimeout(resolve, pollInterval))
WaitSleep ==
  /\ waitPc = "sleep"
  /\ \E late \in TimerLateness : waitElapsed' = waitElapsed + PollInterval + late
  /\ waitPc' = "loop"
  /\ UNCHANGED <<waitMax, waitQueries, waitLastQueryAt, waitLastStatus,
                 waitOutcome, notWait>>

(***************************************************************************)
(* RAGService.uploadFileToVectorStore and getOrCreateVectorStore: uploads  *)
(* of documents for one avatar, whose uploaded_files rows exist with       *)
(* upload_status 'pending'                                                 *)
(***************************************************************************)
MaxUploads == 2            \* concurrent uploads for the avatar
Uploads == 1..MaxUploads

\* `store_${avatarId}_${Date.now()}` of upload u, file.id of its file
StoreIdOf(u) == "store_" \o ToString(u)
FileIdOf(u) == "file_" \o ToString(u)

FilesOutcomes == IF filesFaulty THEN {TRUE, FALSE} ELSE {TRUE}

UploadIdle ==
  /\ filesFaulty = FALSE
  /\ upPc = [u \in Uploads |-> "idle"]
  /\ upStore = [u \in Uploads |-> NULL]
  /\ upStatus = [u \in Uploads |-> "pending"]
  /\ upFileId = [u \in Uploads |-> NULL]
  /\ vsRows = {}
  /\ vsFileCount = 0

\* the call starts: SELECT * FROM vector_stores WHERE avatar_id = $1 is issued
UpStart(u) ==
  /\ upPc[u] = "idle"
  /\ upPc' = [upPc EXCEPT ![u] = "select"]
  /\ UNCHANGED <<filesFaulty, upStore, upStatus, upFileId, vsRows, vsFileCount, notUp>>

\* existingStore.rows.length > 0: return the stored id; else INSERT
AfterSelect(ok, rows) ==
  IF ~ok THEN "catch" ELSE IF rows # {} THEN "files_create" ELSE "insert"

\* the SELECT settles
UpSelect(u) ==
  /\ upPc[u] = "select"
  /\ \E ok \in StoreOutcomes :
       /\ upPc' = [upPc EXCEPT ![u] = AfterSelect(ok, vsRows)]
       /\ upStore' = IF ok /\ vsRows # {}
                     THEN [upStore EXCEPT ![u] = CHOOSE id \in vsRows : TRUE]
                     ELSE upStore
  /\ UNCHANGED <<filesFaulty, upStatus, upFileId, vsRows, vsFileCount, notUp>>

\* avatar_id VARCHAR(255) NOT NULL UNIQUE: the INSERT is rejected when the
\* avatar has a row
InsertAccepted(ok, rows) == ok /\ rows = {}

\* INSERT INTO vector_stores ...; return storeId
UpInsert(u) ==
  /\ upPc[u] = "insert"
  /\ \E ok \in StoreOutcomes :
       IF InsertAccepted(ok, vsRows)
       THEN /\ vsRows' = vsRows \cup {StoreIdOf(u)}
            /\ upStore' = [upStore EXCEPT ![u] = StoreIdOf(u)]
            /\ upPc' = [upPc EXCEPT ![u] = "files_create"]
       ELSE /\ upPc' = [upPc EXCEPT ![u] = "catch"]
            /\ UNCHANGED <<vsRows, upStore>>
  /\ UNCHANGED <<filesFaulty, upStatus, upFileId, vsFileCount, notUp>>

\* openai.files.create
UpFilesCreate(u) ==
  /\ upPc[u] = "files_create"
  /\ \E ok \in FilesOutcomes :
       upPc' = [upPc EXCEPT ![u] = IF ok THEN "update_file" ELSE "catch"]
  /\ UNCHANGED <<filesFaulty, upStore, upStatus, upFileId, vsRows, vsFileCount, notUp>>

\* UPDATE uploaded_files SET openai_file_id = $1, upload_status = 'completed'
UpUpdateFile(u) ==
  /\ upPc[u] = "update_file"
  /\ \E ok \in StoreOutcomes :
       IF ok
       THEN /\ upStatus' = [upStatus EXCEPT ![u] = "completed"]
            /\ upFileId' = [upFileId EXCEPT ![u] = FileIdOf(u)]
            /\ upPc' = [upPc EXCEPT ![u] = "update_count"]
       ELSE /\ upPc' = [upPc EXCEPT ![u] = "catch"]
            /\ UNCHANGED <<upStatus, upFileId>>
  /\ UNCHANGED <<filesFaulty, upStore, vsRows, vsFileCount, notUp>>

\* UPDATE vector_stores SET file_count = file_count + 1; return
UpUpdateCount(u) ==
  /\ upPc[u] = "update_count"
  /\ \E ok \in StoreOutcomes :
       IF ok
       THEN /\ vsFileCount' = vsFileCount + 1
            /\ upPc' = [upPc EXCEPT ![u] = "returned"]
       ELSE /\ upPc' = [upPc EXCEPT ![u] = "catch"]
            /\ UNCHANGED vsFileCount
  /\ UNCHANGED <<filesFaulty, upStore, upStatus, upFileId, vsRows, notUp>>

\* catch (error): UPDATE uploaded_files SET upload_status = 'failed'; throw
UpCatch(u) ==
  /\ upPc[u] = "catch"
  /\ \E ok \in StoreOutcomes :
       upStatus' = IF ok THEN [upStatus EXCEPT ![u] = "failed"] ELSE upStatus
  /\ upPc' = [upPc EXCEPT ![u] = "raised"]
  /\ UNCHANGED <<filesFaulty, upStore, upFileId, vsRows, vsFileCount, notUp>>

UploadStep(u) ==
  \/ UpStart(u) \/ UpSelect(u) \/ UpInsert(u) \/ UpFilesCreate(u)
  \/ UpUpdateFile(u) \/ UpUpdateCount(u) \/ UpCatch(u)

(***************************************************************************)
(* processVideoInBackground: the timer callback                            *)
(***************************************************************************)
\* the three UPDATEs of the callback and what follows each
AfterCompletedWriteFallsThrough(ok) == "write_no_url"
AfterCompletedWrite(ok) == IF ok THEN "done" ELSE "write_no_url"
AfterNoUrlWrite(ok) == IF ok THEN "done" ELSE "write_failed"
AfterFailedWrite(ok) == IF ok THEN "done" ELSE "unhandled_rejection"

WriteTargetLatest(r) ==
  CHOOSE c \in Chats :
    row[c].status # "no_row" /\ \A d \in Chats : row[d].status # "no_row" => d <= c

\* WHERE id = $n with chatId, the parameter of processVideoInBackground
WriteTarget(r) == r

\* SET video_url = $1 with videoResult.video_url
CompletedUrlDropped(res) == NULL
CompletedUrl(res) == res.url
\* the status of the inner catch (statusError) and of the outer catch (error)
InnerCatchStatusFailed == "failed"
InnerCatchStatus == "completed_no_url"
OuterCatchStatus == "failed"

\* setTimeout(..., 30000) fires: waitForVideoCompletion starts, startTime = now
TimerFire(r) ==
  /\ ppc[r] = "timer"
  /\ ppc' = [ppc EXCEPT ![r] = "polling"]
  /\ elapsed' = [elapsed EXCEPT ![r] = 0]
  /\ UNCHANGED <<apiKey, avatarCfg, storeFaulty, message, hpc, useVideo, row, job,
                 response, videoResult, pollerWrites, ragVars, readVars, svcVars, lateVars>>

\* one turn of the while loop of HeyGenService.waitForVideoCompletion
PollIteration(r) ==
  /\ ppc[r] = "polling"
  /\ RealService
  /\ elapsed[r] < MaxWaitTime
  /\ \E w \in StatusWorlds :
       LET st == CheckVideoStatus(w) IN
       IF ~st.ok
       THEN /\ videoResult' = [videoResult EXCEPT ![r] =
                                 [outcome |-> "status_error", url |-> NULL,
                                  answered |-> elapsed[r] > 0]]
            /\ ppc' = [ppc EXCEPT ![r] = "write_no_url"]
            /\ elapsed' = [elapsed EXCEPT ![r] = 0]
       ELSE IF st.status = "completed"
       THEN /\ videoResult' = [videoResult EXCEPT ![r] =
                                 [outcome |-> "success", url |-> st.video_url,
                                  answered |-> elapsed[r] > 0]]
            /\ ppc' = [ppc EXCEPT ![r] = "write_completed"]
            /\ elapsed' = [elapsed EXCEPT ![r] = 0]
       ELSE IF st.status = "failed"
       THEN /\ videoResult' = [videoResult EXCEPT ![r] =
                                 [outcome |-> "render_failed", url |-> NULL,
                                  answered |-> elapsed[r] > 0]]
            /\ ppc' = [ppc EXCEPT ![r] = "write_no_url"]
            /\ elapsed' = [elapsed EXCEPT ![r] = 0]
       ELSE /\ \E lat \in Latencies :
                 elapsed' = [elapsed EXCEPT ![r] = @ + lat + PollInterval]
            /\ UNCHANGED <<videoResult, ppc>>
  /\ UNCHANGED <<apiKey, avatarCfg, storeFaulty, message, hpc, useVideo, row, job,
                 response, pollerWrites, ragVars, readVars, svcVars, lateVars>>

\* the loop condition fails: throw 'Video generation timeout'
PollTimeout(r) ==
  /\ ppc[r] = "polling"
  /\ RealService
  /\ elapsed[r] >= MaxWaitTime
  /\ videoResult' = [videoResult EXCEPT ![r] =
                      [outcome |-> "timeout", url |-> NULL, answered |-> TRUE]]
  /\ ppc' = [ppc EXCEPT ![r] = "write_no_url"]
  /\ elapsed' = [elapsed EXCEPT ![r] = 0]
  /\ UNCHANGED <<apiKey, avatarCfg, storeFaulty, message, hpc, useVideo, row, job,
                 response, pollerWrites, ragVars, readVars, svcVars, lateVars>>

\* the mock waitForVideoCompletion: 5 s, then success with the sample video
MockWait(r) ==
  /\ ppc[r] = "polling"
  /\ ~RealService
  /\ videoResult' = [videoResult EXCEPT ![r] =
                      [outcome |-> "success", url |-> MockUrl, answered |-> FALSE]]
  /\ ppc' = [ppc EXCEPT ![r] = "write_completed"]
  /\ UNCHANGED <<apiKey, avatarCfg, storeFaulty, message, hpc, useVideo, row, job,
                 response, elapsed, pollerWrites, ragVars, readVars, svcVars, lateVars>>

\* if (videoResult.success) UPDATE chats SET video_url, video_status = 'completed';
\* a rejected UPDATE is caught by the inner catch
WriteCompleted(r) ==
  /\ ppc[r] = "write_completed"
  /\ \E ok \in StoreOutcomes :
       /\ IF ok
          THEN /\ row' = [row EXCEPT ![WriteTarget(r)].videoUrl = CompletedUrl(videoResult[r]),
                                     ![WriteTarget(r)].status = "completed"]
               /\ pollerWrites' = [pollerWrites EXCEPT ![r] = @ + 1]
          ELSE UNCHANGED <<row, pollerWrites>>
       /\ ppc' = [ppc EXCEPT ![r] = AfterCompletedWrite(ok)]
  /\ UNCHANGED <<apiKey, avatarCfg, storeFaulty, message, hpc, useVideo, job, response,
                 elapsed, videoResult, ragVars, readVars, svcVars, lateVars>>

\* catch (statusError): UPDATE chats SET video_status = 'completed_no_url';
\* a rejected UPDATE is caught by the outer catch
WriteNoUrl(r) ==
  /\ ppc[r] = "write_no_url"
  /\ \E ok \in StoreOutcomes :
       /\ IF ok
          THEN /\ row' = [row EXCEPT ![WriteTarget(r)].status = InnerCatchStatus]
               /\ pollerWrites' = [pollerWrites EXCEPT ![r] = @ + 1]
          ELSE UNCHANGED <<row, pollerWrites>>
       /\ ppc' = [ppc EXCEPT ![r] = AfterNoUrlWrite(ok)]
  /\ UNCHANGED <<apiKey, avatarCfg, storeFaulty, message, hpc, useVideo, job, response,
                 elapsed, videoResult, ragVars, readVars, svcVars, lateVars>>

\* catch (error): UPDATE chats SET video_status = 'failed'; nothing catches
\* a rejection of this UPDATE
WriteFailed(r) ==
  /\ ppc[r] = "write_failed"
  /\ \E ok \in StoreOutcomes :
       /\ IF ok
          THEN /\ row' = [row EXCEPT ![WriteTarget(r)].status = OuterCatchStatus]
               /\ pollerWrites' = [pollerWrites EXCEPT ![r] = @ + 1]
          ELSE UNCHANGED <<row, pollerWrites>>
       /\ ppc' = [ppc EXCEPT ![r] = AfterFailedWrite(ok)]
  /\ UNCHANGED <<apiKey, avatarCfg, storeFaulty, message, hpc, useVideo, job, response,
                 elapsed, videoResult, ragVars, readVars, svcVars, lateVars>>

HandlerStep(r) ==
  \/ RagReturns(r) \/ InsertChat(r) \/ SubmitVideo(r)
  \/ UpdateVideoId(r) \/ CatchWrite(r)

PollerStep(r) ==
  \/ TimerFire(r) \/ PollIteration(r) \/ PollTimeout(r) \/ MockWait(r)
  \/ WriteCompleted(r) \/ WriteNoUrl(r) \/ WriteFailed(r)

(***************************************************************************)
(* GET /api/video-status/:chat_id                                          *)
(***************************************************************************)
\* a chat id no request was ever stored under
UnknownChat == 0
ReadIds == Chats \cup {UnknownChat}

\* the responses of /api/chat that carry chat_id
WithChatId == {"generating", "failed", "text_only"}

NoRead == [pc |-> "idle", chat |-> UnknownChat, fromResponse |-> FALSE,
           code |-> "none", videoId |-> NULL, videoUrl |-> NULL, status |-> NULL]

\* SELECT ... FROM chats WHERE id = $1
RowOf(c) == IF c \in Chats THEN row[c] ELSE NoRow

ReadAnswerNoNotFound(ok, rw) ==
  IF ~ok THEN [code |-> "500", videoId |-> NULL, videoUrl |-> NULL, status |-> NULL]
  ELSE [code |-> "200", videoId |-> rw.videoId, videoUrl |-> rw.videoUrl,
        status |-> rw.status]

\* the response: 500 when the query rejected, 404 when result.rows.length === 0,
\* else video_id, video_url and video_status of the row
ReadAnswer(ok, rw) ==
  IF ~ok THEN [code |-> "500", videoId |-> NULL, videoUrl |-> NULL, status |-> NULL]
  ELSE IF rw.status = "no_row"
       THEN [code |-> "404", videoId |-> NULL, videoUrl |-> NULL, status |-> NULL]
       ELSE [code |-> "200", videoId |-> rw.videoId, videoUrl |-> rw.videoUrl,
             status |-> rw.status]

\* the request arrives and the SELECT is issued; fromResponse: the id was
\* carried by a response of /api/chat
VideoStatusRequest(c) ==
  /\ reader.pc \in {"idle", "answered"}
  /\ reader' = [NoRead EXCEPT !.pc = "select", !.chat = c,
                               !.fromResponse = (c \in Chats /\ response[c] \in WithChatId)]
  /\ UNCHANGED <<chatVars, ragVars, svcVars, lateVars>>

\* the SELECT settles and the response is sent
VideoStatusAnswer ==
  /\ reader.pc = "select"
  /\ \E ok \in StoreOutcomes :
       LET a == ReadAnswer(ok, RowOf(reader.chat)) IN
       reader' = [reader EXCEPT !.pc = "answered", !.code = a.code,
                                !.videoId = a.videoId, !.videoUrl = a.videoUrl,
                                !.status = a.status]
  /\ UNCHANGED <<chatVars, ragVars, svcVars, lateVars>>

(***************************************************************************)
(* RAGService.chatWithRAG and regularChat                                  *)
(***************************************************************************)
MaxDocs == 2               \* ingested documents of the avatar
MaxAnnotations == 2        \* annotations of the assistant's message
MaxAttempts == 30          \* const maxAttempts = 30

\* texts the completion API may produce, and the assistant's answer
PlainTexts == {"plain_a", "plain_b"}
RagText == "rag_text"

RunStatuses == {"queued", "in_progress", "completed", "failed", "requires_action"}

\* one annotation of the message: a file citation (with or without a quote)
\* or an annotation of another type
AnnotationKinds ==
  {[type |-> "file_citation", file_id |-> "f1", quote |-> "q1"],
   [type |-> "file_citation", file_id |-> "f2", quote |-> ""],
   [type |-> "file_path", file_id |-> "f3", quote |-> ""]}

AnnotationLists == UNION {[1..n -> AnnotationKinds] : n \in 0..MaxAnnotations}

DefaultQuote == "Referenced from uploaded document"

\* extractSources: one source per file_citation annotation, in order
RECURSIVE ExtractSources(_)
ExtractSources(anns) ==
  IF Len(anns) = 0 THEN <<>>
  ELSE LET a == Head(anns)
           rest == ExtractSources(Tail(anns))
       IN IF a.type = "file_citation"
          THEN <<[file_id |-> a.file_id,
                  quote |-> IF a.quote = "" THEN DefaultQuote ELSE a.quote]>> \o rest
          ELSE rest

NoRagResult == [kind |-> "none", message |-> NULL, usedRAG |-> FALSE, sources |-> <<>>]
NoCalls == [assistant |-> 0, runStatus |-> 0, completion |-> 0]
NoRemote == [assistant |-> "none", thread |-> "none"]

\* regularChat rejected: chat.completions.create threw
RegularChatThrew == [NoRagResult EXCEPT !.kind = "raised"]

\* regularChat's return value for the completion text
RegularChat(text) ==
  [kind |-> "returned", message |-> text, usedRAG |-> FALSE, sources |-> <<>>]

RagAnswerMarksAttempt(anns) ==
  [kind |-> "returned", message |-> RagText, usedRAG |-> TRUE,
   sources |-> ExtractSources(anns)]

RagAnswerFlagsAnnotations(anns) ==
  [kind |-> "returned", message |-> RagText, usedRAG |-> Len(anns) > 0,
   sources |-> ExtractSources(anns)]

\* the answer of the completed run: usedRAG = sources.length > 0
RagAnswer(anns) ==
  LET sources == ExtractSources(anns) IN
  [kind |-> "returned", message |-> RagText, usedRAG |-> Len(sources) > 0,
   sources |-> sources]

\* the fallback's return value: { ...response, usedRAG: false }
FallbackResult(res) == [res EXCEPT !.usedRAG = FALSE]

AfterRetrieveTakesTimeoutAsDone(status, attempts) ==
  IF status \in {"queued", "in_progress"} /\ attempts < MaxAttempts THEN "poll"
  ELSE IF status \in {"completed", "queued", "in_progress"} THEN "list_messages"
  ELSE "fallback"

AfterRetrieveOneMore(status, attempts) ==
  IF status \in {"queued", "in_progress"} /\ attempts <= MaxAttempts THEN "poll"
  ELSE IF status = "completed" THEN "list_messages"
  ELSE "fallback"

\* where the call goes once runs.retrieve answered `status`: the while
\* condition, then if (runStatus.status === 'completed') ... else throw
AfterRetrieve(status, attempts) ==
  IF status \in {"queued", "in_progress"} /\ attempts < MaxAttempts THEN "poll"
  ELSE IF status = "completed" THEN "list_messages"
  ELSE "fallback"

AfterLookupAlwaysRetrieves(ok, docs) ==
  IF ~ok THEN "fallback" ELSE "create_assistant"

\* where the call goes once the SELECT settled: catch when it rejected,
\* regularChat when filesResult.rows.length === 0, assistants.create otherwise
AfterLookup(ok, docs) ==
  IF ~ok THEN "fallback"
  ELSE IF docs = 0 THEN "regular" ELSE "create_assistant"

\* SELECT openai_file_id FROM uploaded_files ...; no rows: regularChat
RagLookup ==
  /\ ragPc = "lookup"
  /\ \E ok \in BOOLEAN :
       /\ ragPc' = AfterLookup(ok, ragDocs)
       /\ ragFailed' = ~ok
  /\ UNCHANGED <<ragDocs, ragAttempts, ragRunStatus, ragRemote, ragCalls,
                 ragPending, ragAnnotations, ragPlain, ragResult, chatVars, readVars, svcVars, lateVars>>

\* return await this.regularChat(message), inside the try block
RagRegular ==
  /\ ragPc = "regular"
  /\ ragCalls' = [ragCalls EXCEPT !.completion = @ + 1]
  /\ \/ \E text \in PlainTexts :
          /\ ragPlain' = RegularChat(text)
          /\ ragResult' = RegularChat(text)
          /\ ragPc' = "returned"
          /\ UNCHANGED ragFailed
     \/ /\ ragPlain' = RegularChatThrew
        /\ ragFailed' = TRUE
        /\ ragPc' = "fallback"
        /\ UNCHANGED ragResult
  /\ UNCHANGED <<ragDocs, ragAttempts, ragRunStatus, ragRemote, ragPending,
                 ragAnnotations, chatVars, readVars, svcVars, lateVars>>

\* assistants.create, threads.create, threads.messages.create, runs.create
RagSetup ==
  /\ ragPc \in {"create_assistant", "create_thread", "post_message", "start_run"}
  /\ ragCalls' = [ragCalls EXCEPT !.assistant = @ + 1]
  /\ \E ok \in BOOLEAN :
       IF ok
       THEN /\ ragPc' = CASE ragPc = "create_assistant" -> "create_thread"
                          [] ragPc = "create_thread" -> "post_message"
                          [] ragPc = "post_message" -> "start_run"
                          [] ragPc = "start_run" -> "retrieve"
            /\ ragRemote' = CASE ragPc = "create_assistant" ->
                                   [ragRemote EXCEPT !.assistant = "live"]
                              [] ragPc = "create_thread" ->
                                   [ragRemote EXCEPT !.thread = "live"]
                              [] OTHER -> ragRemote
            /\ UNCHANGED ragFailed
       ELSE /\ ragPc' = "fallback"
            /\ ragFailed' = TRUE
            /\ UNCHANGED ragRemote
  /\ UNCHANGED <<ragDocs, ragAttempts, ragRunStatus, ragPending, ragAnnotations,
                 ragPlain, ragResult, chatVars, readVars, svcVars, lateVars>>

\* the first runs.retrieve, before the loop
RagRetrieve ==
  /\ ragPc = "retrieve"
  /\ ragCalls' = [ragCalls EXCEPT !.runStatus = @ + 1]
  /\ \/ \E status \in RunStatuses :
          /\ ragRunStatus' = status
          /\ ragPc' = AfterRetrieve(status, ragAttempts)
          /\ ragFailed' = (AfterRetrieve(status, ragAttempts) = "fallback")
     \/ /\ ragPc' = "fallback"
        /\ ragFailed' = TRUE
        /\ UNCHANGED ragRunStatus
  /\ UNCHANGED <<ragDocs, ragAttempts, ragRemote, ragPending, ragAnnotations,
                 ragPlain, ragResult, chatVars, readVars, svcVars, lateVars>>

\* one turn of the loop: wait 1 s, runs.retrieve, attempts++
RagPoll ==
  /\ ragPc = "poll"
  /\ ragCalls' = [ragCalls EXCEPT !.runStatus = @ + 1]
  /\ \/ \E status \in RunStatuses :
          /\ ragRunStatus' = status
          /\ ragAttempts' = ragAttempts + 1
          /\ ragPc' = AfterRetrieve(status, ragAttempts + 1)
          /\ ragFailed' = (AfterRetrieve(status, ragAttempts + 1) = "fallback")
     \/ /\ ragPc' = "fallback"
        /\ ragFailed' = TRUE
        /\ UNCHANGED <<ragRunStatus, ragAttempts>>
  /\ UNCHANGED <<ragDocs, ragRemote, ragPending, ragAnnotations, ragPlain,
                 ragResult, chatVars, readVars, svcVars, lateVars>>

\* threads.messages.list, extractSources
RagListMessages ==
  /\ ragPc = "list_messages"
  /\ ragCalls' = [ragCalls EXCEPT !.assistant = @ + 1]
  /\ \/ \E anns \in AnnotationLists :
          /\ ragAnnotations' = anns
          /\ ragPending' = RagAnswer(anns)
          /\ ragPc' = "del_assistant"
          /\ UNCHANGED ragFailed
     \/ /\ ragPc' = "fallback"
        /\ ragFailed' = TRUE
        /\ UNCHANGED <<ragPending, ragAnnotations>>
  /\ UNCHANGED <<ragDocs, ragAttempts, ragRunStatus, ragRemote, ragPlain,
                 ragResult, chatVars, readVars, svcVars, lateVars>>

AfterDelAssistantRethrows(ok) == IF ok THEN "del_thread" ELSE "fallback"

\* where the call goes once assistants.del settled: threads.del, or, through
\* catch (cleanupError), the return statement
AfterDelAssistant(ok) == IF ok THEN "del_thread" ELSE "returned"

\* clean-up: assistants.del; when it throws, threads.del is skipped and the
\* answer is returned
RagDelAssistant ==
  /\ ragPc = "del_assistant"
  /\ ragCalls' = [ragCalls EXCEPT !.assistant = @ + 1]
  /\ \E ok \in BOOLEAN :
       /\ ragRemote' = [ragRemote EXCEPT
                          !.assistant = IF ok THEN "deleted" ELSE "delete_failed"]
       /\ ragPc' = AfterDelAssistant(ok)
       /\ ragResult' = IF AfterDelAssistant(ok) = "returned" THEN ragPending
                       ELSE ragResult
  /\ UNCHANGED <<ragDocs, ragAttempts, ragRunStatus, ragFailed, ragPending,
                 ragAnnotations, ragPlain, chatVars, readVars, svcVars, lateVars>>

\* clean-up: threads.del; then the answer is returned
RagDelThread ==
  /\ ragPc = "del_thread"
  /\ ragCalls' = [ragCalls EXCEPT !.assistant = @ + 1]
  /\ \E ok \in BOOLEAN :
       ragRemote' = [ragRemote EXCEPT !.thread = IF ok THEN "deleted" ELSE "delete_failed"]
  /\ ragResult' = ragPending
  /\ ragPc' = "returned"
  /\ UNCHANGED <<ragDocs, ragAttempts, ragRunStatus, ragFailed, ragPending,
                 ragAnnotations, ragPlain, chatVars, readVars, svcVars, lateVars>>

\* catch (error): regularChat again; its rejection leaves chatWithRAG rejected
RagFallback ==
  /\ ragPc = "fallback"
  /\ ragCalls' = [ragCalls EXCEPT !.completion = @ + 1]
  /\ \/ \E text \in PlainTexts :
          /\ ragPlain' = RegularChat(text)
          /\ ragResult' = FallbackResult(RegularChat(text))
          /\ ragPc' = "returned"
     \/ /\ ragPlain' = RegularChatThrew
        /\ ragResult' = RegularChatThrew
        /\ ragPc' = "raised"
  /\ UNCHANGED <<ragDocs, ragAttempts, ragRunStatus, ragRemote, ragFailed,
                 ragPending, ragAnnotations, chatVars, readVars, svcVars, lateVars>>

(***************************************************************************)
(* The client: sendMessage and pollVideoStatus of the chat screen, for one *)
(* assistant message                                                       *)
(***************************************************************************)
MaxPolls == 60             \* const maxPolls

NoVideo == [status |-> "none", url |-> NULL]
PollError == [status |-> "request_failed", url |-> NULL]

\* response.data.video.status of POST /api/chat
ChatVideoStatuses == {"generating", "failed", "text_only"}

\* response.data of GET /api/video-status/:chat_id: the row's video_status and
\* video_url; the row holds a URL only once it is completed
PollAnswers ==
  {[status |-> st, url |-> NULL] :
     st \in {"generating", "completed_no_url", "failed", "text_only"}}
    \cup {[status |-> "completed", url |-> "video_url"]}

ServerTerminal == {"completed", "completed_no_url", "failed"}

ClientIdle ==
  /\ cliPc = "idle"
  /\ pollCount = 0
  /\ cliRequests = 0
  /\ cliShown = NoVideo
  /\ cliSawTerminal = FALSE

\* sendMessage after POST /api/chat has answered: the assistant message is
\* appended; when its video is generating, pollVideoStatus runs poll() up to
\* its first axios.get
CliSend ==
  /\ cliPc = "idle"
  /\ \E v \in ChatVideoStatuses :
       /\ cliShown' = [status |-> v, url |-> NULL]
       /\ IF v = "generating"
            THEN cliPc' = "await" /\ cliRequests' = cliRequests + 1
            ELSE cliPc' = "done" /\ UNCHANGED cliRequests
  /\ UNCHANGED <<pollCount, cliSawTerminal, notCli>>

\* poll() resumes with the answer to its GET, or in its catch block
CliAnswer ==
  /\ cliPc = "await"
  /\ \E ans \in PollAnswers \cup {PollError} :
       /\ cliSawTerminal' = (cliSawTerminal \/ ans.status \in ServerTerminal)
       /\ IF ans = PollError
            THEN /\ cliPc' = "done"
                 /\ UNCHANGED <<pollCount, cliShown>>
            ELSE IF ans.status = "completed" /\ ans.url # NULL
            THEN /\ cliShown' = [status |-> "completed", url |-> ans.url]
                 /\ cliPc' = "done"
                 /\ UNCHANGED pollCount
            ELSE IF ans.status = "failed"
            THEN /\ cliShown' = [cliShown EXCEPT !.status = "failed"]
                 /\ cliPc' = "done"
                 /\ UNCHANGED pollCount
            ELSE /\ pollCount' = pollCount + 1
                 /\ IF pollCount + 1 < MaxPolls
                      THEN cliPc' = "timer" /\ UNCHANGED cliShown
                      ELSE /\ cliShown' = [cliShown EXCEPT !.status = "timeout"]
                           /\ cliPc' = "done"
  /\ UNCHANGED <<cliRequests, notCli>>

\* setTimeout(poll, 3000) fires: poll() runs up to its axios.get
CliTimer ==
  /\ cliPc = "timer"
  /\ cliPc' = "await"
  /\ cliRequests' = cliRequests + 1
  /\ UNCHANGED <<pollCount, cliShown, cliSawTerminal, notCli>>

(***************************************************************************)
(* The frontend App: the screen shown and the chat session                 *)
(***************************************************************************)
MaxNow == 7                \* readings of Date.now() told apart
MaxSalt == 3               \* values of the random suffix told apart

\* 'session_' + Date.now() + '_' + Math.random().toString(36).substr(2, 9)
NewSessionId(now, salt) == "session_" \o ToString(now) \o "_" \o ToString(salt)

AppIdle ==
  /\ currentScreen = "video"
  /\ sessionId = NULL
  /\ appNow = 0

FrontIdle == ClientIdle /\ AppIdle

SessionAfterReturnKept(s) == s

\* handleReturnToVideo: setSessionId(null)
SessionAfterReturn(s) == NULL

\* the video screen's onStartChat
HandleStartChat ==
  /\ currentScreen = "video"
  /\ \E salt \in 1..MaxSalt : sessionId' = NewSessionId(appNow, salt)
  /\ currentScreen' = "chat"
  /\ UNCHANGED <<appNow, notApp>>

\* the chat screen's onReturnToVideo, the admin screen's onBack
HandleReturnToVideo ==
  /\ currentScreen \in {"chat", "admin"}
  /\ currentScreen' = "video"
  /\ sessionId' = SessionAfterReturn(sessionId)
  /\ UNCHANGED <<appNow, notApp>>

\* the video screen's onGoToAdmin
HandleGoToAdmin ==
  /\ currentScreen = "video"
  /\ currentScreen' = "admin"
  /\ UNCHANGED <<sessionId, appNow, notApp>>

\* time passes between two user actions
AppTick ==
  /\ appNow < MaxNow
  /\ appNow' = appNow + 1
  /\ UNCHANGED <<currentScreen, sessionId, notApp>>

RagIdle ==
  /\ ragPc = "idle"
  /\ ragDocs = 0
  /\ ragAttempts = 0
  /\ ragRunStatus = NULL
  /\ ragRemote = NoRemote
  /\ ragCalls = NoCalls
  /\ ragFailed = FALSE
  /\ ragPending = NoRagResult
  /\ ragAnnotations = <<>>
  /\ ragPlain = NoRagResult
  /\ ragResult = NoRagResult

Init ==
  /\ apiKey \in BOOLEAN
  /\ avatarCfg \in BOOLEAN
  /\ storeFaulty \in BOOLEAN
  /\ hpc = [r \in Chats |-> "idle"]
  /\ message = [r \in Chats |-> NULL]
  /\ useVideo = [r \in Chats |-> FALSE]
  /\ row = [r \in Chats |-> NoRow]
  /\ job = [r \in Chats |-> NULL]
  /\ response = [r \in Chats |-> "none"]
  /\ ppc = [r \in Chats |-> "none"]
  /\ elapsed = [r \in Chats |-> 0]
  /\ videoResult = [r \in Chats |-> NoResult]
  /\ pollerWrites = [r \in Chats |-> 0]
  /\ RagIdle
  /\ reader = NoRead
  /\ SvcIdle
  /\ WaitIdle
  /\ UploadIdle
  /\ FrontIdle

Next == \E r \in Chats : ReceiveChat(r) \/ HandlerStep(r) \/ PollerStep(r)

Spec == Init /\ [][Next]_vars

\* the event loop runs every handler whose awaited promise has settled and
\* every timer that is due
FairSpec ==
  Spec /\ \A r \in Chats : WF_vars(HandlerStep(r)) /\ WF_vars(PollerStep(r))

(***************************************************************************)
(* One call of chatWithRAG, for an avatar with 0..MaxDocs ingested         *)
(* documents; no chat request is in flight.                                *)
(***************************************************************************)
InitRAG ==
  /\ apiKey = FALSE
  /\ avatarCfg = FALSE
  /\ storeFaulty = TRUE
  /\ hpc = [r \in Chats |-> "idle"]
  /\ message = [r \in Chats |-> NULL]
  /\ useVideo = [r \in Chats |-> FALSE]
  /\ row = [r \in Chats |-> NoRow]
  /\ job = [r \in Chats |-> NULL]
  /\ response = [r \in Chats |-> "none"]
  /\ ppc = [r \in Chats |-> "none"]
  /\ elapsed = [r \in Chats |-> 0]
  /\ videoResult = [r \in Chats |-> NoResult]
  /\ pollerWrites = [r \in Chats |-> 0]
  /\ ragPc = "lookup"
  /\ ragDocs \in 0..MaxDocs
  /\ ragAttempts = 0
  /\ ragRunStatus = NULL
  /\ ragRemote = NoRemote
  /\ ragCalls = NoCalls
  /\ ragFailed = FALSE
  /\ ragPending = NoRagResult
  /\ ragAnnotations = <<>>
  /\ ragPlain = NoRagResult
  /\ ragResult = NoRagResult
  /\ reader = NoRead
  /\ SvcIdle
  /\ WaitIdle
  /\ UploadIdle
  /\ FrontIdle

\* no other chat request has arrived
OnlyChat(r) == \A q \in Chats \ {r} : hpc[q] = "idle"

(***************************************************************************)
(* One chat request and a client that reads video statuses at any time     *)
(***************************************************************************)
NextRead ==
  \/ \E r \in Chats :
       OnlyChat(r) /\ (ReceiveChat(r) \/ HandlerStep(r) \/ PollerStep(r))
  \/ \E c \in ReadIds : VideoStatusRequest(c)
  \/ VideoStatusAnswer

SpecRead == Init /\ [][NextRead]_vars

(***************************************************************************)
(* One call of a HeyGenService method; no chat request is in flight.       *)
(***************************************************************************)
InitService ==
  /\ apiKey = TRUE
  /\ avatarCfg = TRUE
  /\ storeFaulty = FALSE
  /\ hpc = [r \in Chats |-> "idle"]
  /\ message = [r \in Chats |-> NULL]
  /\ useVideo = [r \in Chats |-> FALSE]
  /\ row = [r \in Chats |-> NoRow]
  /\ job = [r \in Chats |-> NULL]
  /\ response = [r \in Chats |-> "none"]
  /\ ppc = [r \in Chats |-> "none"]
  /\ elapsed = [r \in Chats |-> 0]
  /\ videoResult = [r \in Chats |-> NoResult]
  /\ pollerWrites = [r \in Chats |-> 0]
  /\ RagIdle
  /\ reader = NoRead
  /\ svcPc = "start"
  /\ svcAnswer = NoAnswer
  /\ svcJob = NULL
  /\ svcWorld = AllFail
  /\ svcQueried = <<>>
  /\ svcStatus = EndpointFail
  /\ WaitIdle
  /\ UploadIdle
  /\ FrontIdle

NextService == SvcGenerate \/ SvcCheckStart \/ SvcQuery

SpecService == InitService /\ [][NextService]_vars

(***************************************************************************)
(* One call of waitForVideoCompletion; no chat request is in flight.       *)
(***************************************************************************)
InitWait ==
  /\ apiKey = TRUE
  /\ avatarCfg = TRUE
  /\ storeFaulty = FALSE
  /\ hpc = [r \in Chats |-> "idle"]
  /\ message = [r \in Chats |-> NULL]
  /\ useVideo = [r \in Chats |-> FALSE]
  /\ row = [r \in Chats |-> NoRow]
  /\ job = [r \in Chats |-> NULL]
  /\ response = [r \in Chats |-> "none"]
  /\ ppc = [r \in Chats |-> "none"]
  /\ elapsed = [r \in Chats |-> 0]
  /\ videoResult = [r \in Chats |-> NoResult]
  /\ pollerWrites = [r \in Chats |-> 0]
  /\ RagIdle
  /\ reader = NoRead
  /\ SvcIdle
  /\ waitPc = "loop"
  /\ waitMax \in MaxWaits
  /\ waitElapsed = 0
  /\ waitQueries = 0
  /\ waitLastQueryAt = 0
  /\ waitLastStatus = NULL
  /\ waitOutcome = "none"
  /\ UploadIdle
  /\ FrontIdle

NextWait == WaitCheck \/ WaitAnswer \/ WaitSleep

SpecWait == InitWait /\ [][NextWait]_vars

(***************************************************************************)
(* Concurrent uploads for one avatar that has no vector_stores row yet;    *)
(* no chat request is in flight.                                           *)
(***************************************************************************)
InitUpload ==
  /\ apiKey = TRUE
  /\ avatarCfg = TRUE
  /\ storeFaulty \in BOOLEAN
  /\ hpc = [r \in Chats |-> "idle"]
  /\ message = [r \in Chats |-> NULL]
  /\ useVideo = [r \in Chats |-> FALSE]
  /\ row = [r \in Chats |-> NoRow]
  /\ job = [r \in Chats |-> NULL]
  /\ response = [r \in Chats |-> "none"]
  /\ ppc = [r \in Chats |-> "none"]
  /\ elapsed = [r \in Chats |-> 0]
  /\ videoResult = [r \in Chats |-> NoResult]
  /\ pollerWrites = [r \in Chats |-> 0]
  /\ RagIdle
  /\ reader = NoRead
  /\ SvcIdle
  /\ WaitIdle
  /\ filesFaulty \in BOOLEAN
  /\ upPc = [u \in Uploads |-> "idle"]
  /\ upStore = [u \in Uploads |-> NULL]
  /\ upStatus = [u \in Uploads |-> "pending"]
  /\ upFileId = [u \in Uploads |-> NULL]
  /\ vsRows = {}
  /\ vsFileCount = 0
  /\ FrontIdle

NextUpload == \E u \in Uploads : UploadStep(u)

SpecUpload == InitUpload /\ [][NextUpload]_vars

(***************************************************************************)
(* The frontend after the App has mounted; the server is idle.             *)
(***************************************************************************)
InitFront ==
  /\ apiKey = TRUE
  /\ avatarCfg = TRUE
  /\ storeFaulty = FALSE
  /\ hpc = [r \in Chats |-> "idle"]
  /\ message = [r \in Chats |-> NULL]
  /\ useVideo = [r \in Chats |-> FALSE]
  /\ row = [r \in Chats |-> NoRow]
  /\ job = [r \in Chats |-> NULL]
  /\ response = [r \in Chats |-> "none"]
  /\ ppc = [r \in Chats |-> "none"]
  /\ elapsed = [r \in Chats |-> 0]
  /\ videoResult = [r \in Chats |-> NoResult]
  /\ pollerWrites = [r \in Chats |-> 0]
  /\ RagIdle
  /\ reader = NoRead
  /\ SvcIdle
  /\ WaitIdle
  /\ UploadIdle
  /\ FrontIdle

\* one assistant message of the chat screen and its polls
NextClient == CliSend \/ CliAnswer \/ CliTimer

SpecClient == InitFront /\ [][NextClient]_vars

\* a pending timer fires and a request in flight is answered or fails
FairSpecClient == SpecClient /\ WF_vars(NextClient)

(***************************************************************************)
(* The App alone: the user moves between the screens.                      *)
(***************************************************************************)
NextApp == HandleStartChat \/ HandleReturnToVideo \/ HandleGoToAdmin \/ AppTick

SpecApp == InitFront /\ [][NextApp]_vars

NextRAG ==
  \/ RagLookup \/ RagRegular \/ RagSetup \/ RagRetrieve \/ RagPoll
  \/ RagListMessages \/ RagDelAssistant \/ RagDelThread \/ RagFallback

SpecRAG == InitRAG /\ [][NextRAG]_vars

(***************************************************************************)
(* Properties                                                              *)
(***************************************************************************)
PollerEnded(r) == ppc[r] \in {"done", "unhandled_rejection"}

\* C1: with store writes succeeding and timers firing, every row stored with
\* videoStatus generating eventually holds a terminal videoStatus.
C1_GeneratingEndsTerminal ==
  \A r \in Chats :
    (~storeFaulty /\ row[r].status = "generating") ~> (row[r].status \in Terminal)

\* C2: a row that holds a terminal videoStatus keeps it: no step of a handler
\* or of a poller changes the status of a terminal row.
C2_NoRegress ==
  [][\A r \in Chats : row[r].status \in Terminal => row'[r].status = row[r].status]_vars

\* C2 witness: a poller ended after a rejected UPDATE, leaving its row terminal,
\* while another chat's row is terminal too.
C2_Witness ==
  \E r, q \in Chats :
    /\ r # q
    /\ ppc[r] = "done" /\ videoResult[r].outcome = "success"
    /\ row[r].status = "completed_no_url"
    /\ row[q].status = "completed" /\ ppc[q] = "done"

\* C3: a poller that has ended has written a terminal status exactly once, and
\* no poller ever writes more than once.
C3_ExactlyOneWrite ==
  \A r \in Chats :
    /\ pollerWrites[r] <= 1
    /\ PollerEnded(r) => pollerWrites[r] = 1

\* C4: chatWithRAG never rejects, and what it returns after an internal
\* failure has usedRAG = false and no sources.
C4_NeverRaises ==
  /\ ragPc # "raised"
  /\ (ragPc = "returned" /\ ragFailed) =>
       (ragResult.usedRAG = FALSE /\ ragResult.sources = <<>>)

\* C5: a stored row has videoStatus text_only exactly when its request had
\* use_video false, and a row created for use_video true starts at generating.
C5_TextOnlyIffNoVideo ==
  /\ [](\A r \in Chats :
          row[r].status # "no_row" => (row[r].status = "text_only" <=> ~useVideo[r]))
  /\ [][\A r \in Chats :
          (row[r].status = "no_row" /\ row'[r].status # "no_row" /\ useVideo[r])
            => row'[r].status = "generating"]_vars

\* C5 witness: a video request served without renderer credentials: the row
\* was created generating although the response says text_only.
C5_Witness ==
  \E r \in Chats :
    useVideo[r] /\ ~apiKey /\ row[r].status = "generating" /\ response[r] = "text_only"

\* C6: when waitForVideoCompletion threw because the renderer reported failed
\* or because maxWait was exceeded, the row ends failed.
C6_RenderFailureEndsFailed ==
  \A r \in Chats :
    (ppc[r] = "done" /\ videoResult[r].outcome \in {"render_failed", "timeout"})
      => row[r].status = "failed"

C9_CompletedHasUrl ==
  \A r \in Chats : row[r].status = "completed" => row[r].videoUrl # NULL

\* C10: the background task never ends in an unhandled rejection.
C10_NoUnhandledFault ==
  \A r \in Chats : ppc[r] # "unhandled_rejection"

\* the render submission of request r was attempted and failed: the handler
\* is in or past catch (videoError) without a video_id
SubmissionFailed(r) ==
  /\ hpc[r] \in {"catch_write", "done"}
  /\ row[r].status # "no_row"
  /\ VideoBranch(r)
  /\ job[r] = NULL

C12_SubmitFailureSchedulesNoPoller ==
  \A r \in Chats :
    SubmissionFailed(r) =>
      (ppc[r] = "none" /\ pollerWrites[r] = 0 /\ videoResult[r] = NoResult)

\* C12 witness: a rejected submission whose row the handler set to failed.
C12_Witness ==
  \E r \in Chats :
    SubmissionFailed(r) /\ hpc[r] = "done" /\ row[r].status = "failed"
      /\ ppc[r] = "none"

\* an INSERT or UPDATE of the handler, or an UPDATE of the poller, is awaited
HandlerWriteInFlight(r) == hpc[r] \in {"insert", "update_id", "catch_write"}
PollerWriteInFlight(r) == ppc[r] \in {"write_completed", "write_no_url", "write_failed"}

\* C14: a poller has a write in flight, or has written, only after the
\* handler's UPDATE of the provisional videoId was applied, and never while a
\* write of the handler to the same row is in flight.
C14_PollerWritesAfterIdWrite ==
  \A r \in Chats :
    (PollerWriteInFlight(r) \/ pollerWrites[r] > 0)
      => /\ ~HandlerWriteInFlight(r)
         /\ hpc[r] = "done"
         /\ row[r].videoId # NULL
         /\ row[r].videoId = job[r]

\* C14 witness: a poller's first UPDATE is in flight for a row that carries
\* the renderer's video id.
C14_Witness ==
  \E r \in Chats :
    ppc[r] = "write_completed" /\ row[r].videoId = VideoIdOf(r) /\ hpc[r] = "done"

\* C15: whenever the poller of a chat has been scheduled, is polling or has
\* obtained an outcome, the submit-chat response (video.status generating) has
\* been sent; a response is never sent after a status query.
C15_ResponseBeforeFirstQuery ==
  \A r \in Chats :
    (ppc[r] # "none" \/ videoResult[r] # NoResult \/ elapsed[r] > 0)
      => response[r] = "generating"

\* C15 witness: the polling loop has had a status query answered, after the
\* response.
C15_Witness ==
  \E r \in Chats :
    ppc[r] = "polling" /\ elapsed[r] > 0 /\ response[r] = "generating"

\* C16: for an avatar with no ingested document the call issues no call to
\* the assistant API (assistant, thread, message, run, message list, delete)
\* and no run-status query, and what it answers has usedRAG = false and no
\* sources.
C16_NoDocsNoRetrieval ==
  ragDocs = 0 =>
    /\ ragCalls.assistant = 0
    /\ ragCalls.runStatus = 0
    /\ ragRemote = NoRemote
    /\ ragResult.usedRAG = FALSE
    /\ ragResult.sources = <<>>

\* C16 witness: the call for an avatar without documents returned an answer of
\* the completion API.
C16_Witness ==
  ragDocs = 0 /\ ragPc = "returned" /\ ragCalls.completion > 0 /\ ~ragFailed

\* the file citations among the annotations, in order
FileCitations(anns) ==
  LET IsCitation(a) == a.type = "file_citation" IN SelectSeq(anns, IsCitation)

\* the call returned the answer of a completed run
CompletedRunReturned ==
  ragPc = "returned" /\ ragRunStatus = "completed" /\ ragResult = ragPending
    /\ ragPending # NoRagResult

\* C17: the answer of a completed run has one source per file citation, in
\* the citations' order; with at least one citation usedRAG = true and sources
\* is non-empty, with none usedRAG = false and sources = [], after calls to
\* the assistant API.
C17_UsedRagIffCitations ==
  CompletedRunReturned =>
    LET cites == FileCitations(ragAnnotations) IN
    /\ Len(ragResult.sources) = Len(cites)
    /\ \A i \in 1..Len(cites) : ragResult.sources[i].file_id = cites[i].file_id
    /\ Len(cites) >= 1 => (ragResult.usedRAG = TRUE /\ ragResult.sources # <<>>)
    /\ Len(cites) = 0 => (ragResult.usedRAG = FALSE /\ ragResult.sources = <<>>)
    /\ ragCalls.assistant > 0 /\ ragCalls.runStatus > 0

\* C17 witness: a completed run whose answer carries an annotation that is
\* not a file citation, and none that is, was returned.
C17_Witness ==
  CompletedRunReturned /\ Len(ragAnnotations) > 0
    /\ Len(FileCitations(ragAnnotations)) = 0

\* C17 witness, other case: two citations were returned as two sources.
C17_WitnessCited ==
  CompletedRunReturned /\ Len(FileCitations(ragAnnotations)) = 2
    /\ ragAnnotations[1].file_id # ragAnnotations[2].file_id

\* the loop ended on attempts = maxAttempts with the run still not finished
BudgetExceeded ==
  ragAttempts = MaxAttempts /\ ragRunStatus \in {"queued", "in_progress"}
    /\ ragPc \notin {"poll", "retrieve"}

\* C18: once the polling budget is exceeded, what the call answers is what the
\* regularChat call of the fallback answered: the same text, usedRAG = false,
\* sources = [] (or the same rejection).
C18_TimeoutEqualsPlain ==
  (BudgetExceeded /\ ragPc \in {"returned", "raised"}) => ragResult = ragPlain

\* C18 witness: a call returned after 30 unfinished status queries.
C18_Witness ==
  BudgetExceeded /\ ragPc = "returned" /\ ragResult.kind = "returned"
    /\ ragCalls.runStatus = MaxAttempts + 1

\* C19: a call that created the assistant and the thread has attempted to
\* delete both when it ends.
C19_DeletesAttemptedBeforeReturn ==
  (ragPc \in {"returned", "raised"} /\ ragRemote.assistant # "none"
     /\ ragRemote.thread # "none")
    => (ragRemote.assistant # "live" /\ ragRemote.thread # "live")

\* a step of the video-status handler
ReadStep == reader' # reader

\* C20: a step of the video-status handler changes no row, no handler or
\* poller position, no renderer job and no timer; its answer is 404 when no
\* row has the id and otherwise carries the row's videoId, videoUrl and
\* status as they are when the SELECT runs.
C20_PureReadAnswersRow ==
  [][ReadStep =>
       /\ UNCHANGED <<chatVars, ragVars>>
       /\ reader'.pc = "answered" =>
            LET rw == RowOf(reader.chat) IN
            /\ reader'.chat = reader.chat
            /\ IF rw.status = "no_row"
               THEN reader'.code = "404"
               ELSE /\ reader'.code = "200"
                    /\ reader'.videoId = rw.videoId
                    /\ reader'.videoUrl = rw.videoUrl
                    /\ reader'.status = rw.status]_vars

\* C20, amended: the same, except that a rejected SELECT is answered 500
\* with no field of the row.
C20_PureReadAnswersRowIfStored ==
  [][ReadStep =>
       /\ UNCHANGED <<chatVars, ragVars>>
       /\ reader'.pc = "answered" =>
            LET rw == RowOf(reader.chat) IN
            /\ reader'.chat = reader.chat
            /\ reader'.code \in {"200", "404", "500"}
            /\ reader'.code = "500" => storeFaulty
            /\ reader'.code = "404" => rw.status = "no_row"
            /\ reader'.code = "200" =>
                 /\ rw.status # "no_row"
                 /\ reader'.videoId = rw.videoId
                 /\ reader'.videoUrl = rw.videoUrl
                 /\ reader'.status = rw.status
            /\ reader'.code # "200" =>
                 /\ reader'.videoId = NULL
                 /\ reader'.videoUrl = NULL
                 /\ reader'.status = NULL]_vars

\* C20 witness: a read was answered with the URL of a completed video, and
\* the row still holds it.
C20_Witness ==
  /\ reader.pc = "answered"
  /\ reader.code = "200"
  /\ reader.status = "completed"
  /\ reader.videoUrl \in Urls
  /\ row[reader.chat].videoUrl = reader.videoUrl

\* C13: a read of a chat id carried by the response of a request with
\* use_video, when the store answers it, finds the row, either generating
\* with its videoId set or in a terminal status; and the row exists and the
\* renderer's id is stored when the generating response is sent.
C13_ReadAfterResponseFindsJob ==
  /\ \A r \in Chats :
       response[r] = "generating" =>
         (row[r].status # "no_row" /\ job[r] # NULL /\ row[r].videoId = job[r])
  /\ (reader.pc = "answered" /\ reader.fromResponse /\ useVideo[reader.chat]
        /\ reader.code # "500")
       => /\ reader.code = "200"
          /\ \/ reader.status = "generating" /\ reader.videoId # NULL
             \/ reader.status \in Terminal

\* C25: one call issues at most 30 run-status queries.
C25_AtMostThirtyQueries == ragCalls.runStatus <= MaxAttempts

\* C25, amended: the loop makes at most 30 attempts, each one run-status query
\* after a wait, on top of the query made before the loop: at most 31 queries;
\* a run still queued or in_progress after the 30th attempt is treated as
\* failed.
C25_AtMostThirtyAttempts ==
  /\ ragAttempts <= MaxAttempts
  /\ ragCalls.runStatus <= ragAttempts + 2
  /\ ragCalls.runStatus <= MaxAttempts + 1
  /\ BudgetExceeded =>
       (ragFailed /\ ragPc \in {"fallback", "returned", "raised"}
          /\ ragResult.usedRAG = FALSE)

\* C25 witness: the 30th attempt found the run still in progress, after 31
\* queries.
C25_Witness ==
  BudgetExceeded /\ ragRunStatus = "in_progress"
    /\ ragCalls.runStatus = MaxAttempts + 1 /\ ragPc = "fallback"

\* C27: one call issues at most one call to the completion API.
C27_OneCompletionCall == ragCalls.completion <= 1

\* statuses that are neither queued, in_progress nor completed
OtherStatuses == RunStatuses \ {"queued", "in_progress", "completed"}

\* C28: once a run-status query answered a status that is neither queued,
\* in_progress nor completed, no further query is made, and the call ends by
\* returning the plain answer with usedRAG = false and no sources, never by
\* rejecting.
C28_OtherStatusEndsPlain ==
  ragRunStatus \in OtherStatuses =>
    /\ ragPc \in {"fallback", "returned", "raised"}
    /\ ragFailed
    /\ ragPc # "raised"
    /\ ragPc = "returned" =>
         /\ ragResult = ragPlain
         /\ ragResult.usedRAG = FALSE
         /\ ragResult.sources = <<>>

\* a delete of the clean-up failed
DeleteFailed ==
  ragRemote.assistant = "delete_failed" \/ ragRemote.thread = "delete_failed"

\* C29: when assistants.del or threads.del fails after a completed run, the
\* call returns the answer built from the run, the one it returns when both
\* deletes succeed, and makes no call to the completion API.
C29_DeleteFailureKeepsAnswer ==
  DeleteFailed =>
    /\ ragPc = "returned"
    /\ ~ragFailed
    /\ ragResult = RagAnswer(ragAnnotations)
    /\ ragResult = ragPending
    /\ ragCalls.completion = 0

\* C29 witness: threads.del failed and the answer with its two sources was
\* returned.
C29_Witness ==
  /\ ragRemote.thread = "delete_failed"
  /\ ragPc = "returned"
  /\ Len(ragResult.sources) = 2
  /\ ragResult.usedRAG

\* the request of chat r carried no message, or an empty one
NoMessage(r) == message[r] \in {Absent, ""}

\* C30: a request whose message is absent or empty is answered 400 in the
\* step that receives it and nothing else happens for it: chatWithRAG is not
\* called, no row is inserted, nothing is submitted to the renderer and no
\* poller is scheduled.
C30_NoMessageNoEffect ==
  \A r \in Chats :
    NoMessage(r) =>
      /\ hpc[r] = "done"
      /\ response[r] = "400"
      /\ row[r] = NoRow
      /\ job[r] = NULL
      /\ ppc[r] = "none"
      /\ videoResult[r] = NoResult
      /\ pollerWrites[r] = 0

\* C30 witness: a request with the empty string as message was rejected while
\* another request was served.
C30_Witness ==
  \E r, q \in Chats :
    message[r] = "" /\ response[r] = "400" /\ row[q].status # "no_row"

\* C24: a request is answered with an error only when its message is absent
\* (400) or a store operation failed (500).
C24_ErrorOnlyFromInputOrStore ==
  \A r \in Chats :
    /\ response[r] = "400" => NoMessage(r)
    /\ response[r] = "500" => storeFaulty

\* the step changes what the handler or the poller of chat r holds, or its row
ChatStateChanges(r) ==
  \/ hpc'[r] # hpc[r] \/ ppc'[r] # ppc[r] \/ row'[r] # row[r]
  \/ job'[r] # job[r] \/ response'[r] # response[r] \/ elapsed'[r] # elapsed[r]
  \/ videoResult'[r] # videoResult[r] \/ pollerWrites'[r] # pollerWrites[r]

\* C23: every step changes the row, handler and poller of at most one chat,
\* so a poller writes only its own row; and what the row of a chat holds once
\* its poller ended is fixed by that poller's own outcome and own writes:
\* completed with the URL its own status queries returned, completed_no_url
\* or failed without URL, or still generating when none of its writes was
\* applied.
C23_PollersIndependent ==
  /\ [][Cardinality({r \in Chats : ChatStateChanges(r)}) <= 1]_vars
  /\ [](\A r \in Chats :
          PollerEnded(r) =>
            /\ row[r].videoId = job[r]
            /\ pollerWrites[r] = 0 =>
                 (row[r].status = "generating" /\ row[r].videoUrl = NULL)
            /\ pollerWrites[r] > 0 =>
                 \/ /\ row[r].status = "completed"
                    /\ videoResult[r].outcome = "success"
                    /\ row[r].videoUrl = videoResult[r].url
                 \/ /\ row[r].status \in {"completed_no_url", "failed"}
                    /\ row[r].videoUrl = NULL)

\* C23 witness: two pollers ended with different outcomes, one with a URL
\* and one without.
C23_Witness ==
  \E r, q \in Chats :
    /\ PollerEnded(r) /\ PollerEnded(q)
    /\ row[r].status = "completed" /\ row[r].videoUrl \in Urls
    /\ row[q].status = "completed_no_url"

\* C21: waitForVideoCompletion ends in one of three ways only: it returns on
\* a completed status, throws on a failed status, or throws when maxWaitTime
\* has elapsed; a failing status query does not end it before that.
C21_EndsInOneOfThreeWays ==
  \A r \in Chats :
    /\ videoResult[r].outcome \in {"none", "success", "render_failed", "timeout"}
    /\ videoResult[r].outcome = "timeout" => ppc[r] # "polling"

\* the endpoints 1..n in list order
RECURSIVE UpTo(_)
UpTo(n) == IF n = 0 THEN <<>> ELSE Append(UpTo(n - 1), n)

\* the endpoints of the world that answer
Working(w) == {i \in 1..NumEndpoints : w[i].ok}

\* the first of them in list order
FirstOf(S) == CHOOSE i \in S : \A j \in S : i <= j

\* C22: a finished checkVideoStatus call has queried the endpoints in list
\* order up to the first that answered and none after it, returns that
\* endpoint's answer, and throws exactly when all five failed, after
\* querying all five.
C22_FirstWorkingEndpoint ==
  /\ svcPc \in {"query", "checked"} =>
       (Len(svcQueried) <= NumEndpoints /\ svcQueried = UpTo(Len(svcQueried)))
  /\ svcPc = "checked" =>
       /\ svcStatus = CheckVideoStatus(svcWorld)
       /\ IF Working(svcWorld) = {}
          THEN svcStatus = EndpointFail /\ Len(svcQueried) = NumEndpoints
          ELSE /\ Len(svcQueried) = FirstOf(Working(svcWorld))
               /\ svcStatus = svcWorld[FirstOf(Working(svcWorld))]
               /\ svcStatus.ok

\* C22 witness: the first two endpoints failed, the third answered and the
\* fourth, which would have answered too, was not queried.
C22_Witness ==
  /\ svcPc = "checked"
  /\ svcQueried = <<1, 2, 3>>
  /\ svcWorld[4].ok
  /\ svcStatus = svcWorld[3]

\* C26: generateAvatarVideo returns a video_id exactly when the request was
\* accepted and the body carries a video_id and reports no error (error is
\* null or missing); otherwise it throws.
C26_JobIdIffAccepted ==
  svcPc = "generated" =>
    (svcJob # "throw" <=>
       (svcAnswer.http = "ok" /\ svcAnswer.hasVideoId /\ svcAnswer.error # "some_error"))

\* the request of chat r had a message and ended without a row
NoRecord(r) ==
  hpc[r] = "done" /\ HasMessage(message[r]) /\ row[r].status = "no_row"

\* C31: as long as no row exists for a request nothing is submitted to the
\* renderer and no poller is scheduled, and a request with a message that
\* ends without a row (the INSERT was rejected, or chatWithRAG before it) is
\* answered 500.
C31_InsertFailureEndsRequest ==
  \A r \in Chats :
    /\ row[r].status = "no_row" =>
         /\ hpc[r] \notin {"submit", "update_id", "catch_write"}
         /\ job[r] = NULL
         /\ ppc[r] = "none"
         /\ videoResult[r] = NoResult
    /\ NoRecord(r) => response[r] = "500"

\* C31 witness: a request with use_video and credentials ended with 500 and
\* without a row in a run whose store rejects writes.
C31_Witness ==
  \E r \in Chats :
    NoRecord(r) /\ VideoBranch(r) /\ storeFaulty /\ response[r] = "500"

\* C33: every result the call returns has usedRAG = true exactly when its
\* sources are non-empty.
C33_UsedRagIffSources ==
  ragPc = "returned" => (ragResult.usedRAG <=> ragResult.sources # <<>>)

\* C33 witness: an answer with one citation among two annotations was
\* returned with one source.
C33_Witness ==
  /\ ragPc = "returned"
  /\ Len(ragAnnotations) = 2
  /\ Len(ragResult.sources) = 1
  /\ ragResult.usedRAG

\* C34: from the moment a response with a chat_id is sent until a poller
\* runs, the row's video_status is the video.status of the response.
C34_ResponseStatusIsStoredStatus ==
  \A r \in Chats :
    (response[r] \in WithChatId /\ ppc[r] \in {"none", "timer"})
      => row[r].status = response[r]

\* C35: a row in completed or completed_no_url has a video_id, and a poller
\* exists only for a row whose video_id is stored and is the id the renderer
\* returned.
C35_PollerOnlyWithStoredId ==
  \A r \in Chats :
    /\ row[r].status \in {"completed", "completed_no_url"} => row[r].videoId # NULL
    /\ ppc[r] # "none" =>
         (row[r].status # "no_row" /\ row[r].videoId # NULL /\ row[r].videoId = job[r])

\* C35 witness: a row ended in completed_no_url with the renderer's id stored.
C35_Witness ==
  \E r \in Chats :
    row[r].status = "completed_no_url" /\ row[r].videoId = VideoIdOf(r)
      /\ ppc[r] = "done"

\* ceil(a / b) for b > 0, and 0 for a <= 0
CeilDiv(a, b) == IF a <= 0 THEN 0 ELSE (a + b - 1) \div b

\* C32: every status query is issued while the elapsed time is below
\* maxWaitTime; at most ceil(maxWaitTime / pollInterval) are issued; a call
\* whose queries all answered a non-terminal status ends with the timeout
\* error, once the elapsed time has reached maxWaitTime; with
\* maxWaitTime <= 0 it ends so without a query.
C32_NoQueryAfterMaxWait ==
  /\ waitQueries > 0 => waitLastQueryAt < waitMax
  /\ waitQueries <= CeilDiv(waitMax, PollInterval)
  /\ waitOutcome = "timeout" => (waitPc = "ended" /\ waitElapsed >= waitMax)
  /\ (waitPc = "ended" /\ waitLastStatus \in {NULL, "processing"}) =>
       waitOutcome = "timeout"
  /\ waitMax <= 0 => (waitQueries = 0 /\ waitPc \in {"loop", "ended"})

\* C32 witness: with maxWaitTime = 60000 the call timed out after 12
\* queries, each answered at once and each timer on time.
C32_Witness ==
  /\ waitOutcome = "timeout"
  /\ waitMax = MaxWaitTime
  /\ waitQueries = CeilDiv(MaxWaitTime, PollInterval)
  /\ waitElapsed = MaxWaitTime

\* C32 witness, other case: maxWaitTime = 0 ended in the timeout error.
C32_WitnessZero ==
  waitOutcome = "timeout" /\ waitMax = 0 /\ waitQueries = 0

\* the upload has returned or thrown
UploadEnded(u) == upPc[u] \in {"returned", "raised"}

\* C36: with a store and a Files API that do not fail, the avatar never has
\* more than one vector_stores row, and every upload that ended has returned
\* the id of that row and left its file completed.
C36_ConcurrentUploadsShareStore ==
  /\ Cardinality(vsRows) <= 1
  /\ (~storeFaulty /\ ~filesFaulty) =>
       \A u \in Uploads :
         UploadEnded(u) =>
           /\ upPc[u] = "returned"
           /\ upStore[u] \in vsRows
           /\ upStatus[u] = "completed"

\* C37: upload_status moves only from pending to completed or from pending
\* to failed; a completed file stays completed.
C37_CompletedStaysCompleted ==
  [][\A u \in Uploads :
       upStatus'[u] # upStatus[u] =>
         (upStatus[u] = "pending" /\ upStatus'[u] \in {"completed", "failed"})]_vars

(***************************************************************************)
(* C38: after a poll has been answered with a terminal server status       *)
(* (completed, completed_no_url or failed) the client issues no further    *)
(* poll-video-status request for the chat.                                 *)
(***************************************************************************)
C38_NoPollAfterTerminal ==
  [][cliSawTerminal => cliRequests' = cliRequests]_vars

(***************************************************************************)
(* C39: a message shown with video status generating eventually shows a    *)
(* non-generating status, and the client issues at most 60 polls for it.   *)
(***************************************************************************)
C39_GeneratingEventuallyEnds ==
  /\ (cliShown.status = "generating") ~> (cliShown.status # "generating")
  /\ [](cliRequests <= MaxPolls)

(***************************************************************************)
(* C40: sessionId is non-null exactly when the current screen is chat.     *)
(***************************************************************************)
C40_SessionIffChat == (sessionId # NULL) <=> (currentScreen = "chat")

\* the admin screen is shown, entered from the video screen, with no session
C40_Witness ==
  /\ currentScreen = "admin"
  /\ sessionId = NULL
  /\ appNow > 0

====
